---- MODULE Spec2Model ----
(***************************************************************************)
(* Model of pfs.ga.pfsspec.stellar.continuum.models.ContinuumModel:        *)
(*   - fit_function, the iterative fit / continuum-finder loop  (SpecFit)  *)
(*   - init_wave / fit, the wave and mask cache of an instance (SpecCache) *)
(*   - ranges_to_mask / limits_to_masks, the mask builders      (SpecMask) *)
(*   - transform_flux_forward / _reverse, the flux transform    (SpecFlux) *)
(*   - fit / fit_function without and with a trace sink        (SpecTrace)*)
(*                                                                         *)
(* Python None is the empty tuple <<>> wherever the other values are       *)
(* tuples (masks, wave vectors), and the string "None" where the other     *)
(* values are strings.  A field that holds None or a list that may be      *)
(* empty holds None or Some(list).  A float that may be NaN is a record    *)
(* [nan, v].                                                               *)
(***************************************************************************)
EXTENDS Integers, Sequences, FiniteSets, TLC

VARIABLES
    self,    \* the ContinuumModel instance: its configuration and its caches
    frame,   \* the running fit_function call: its arguments and its locals
    calls,   \* what the call has done to its collaborators (func, finder, trace)
    pc,      \* the position of the running call
    args,    \* the arguments of a mask-builder call
    ret      \* the value a call returned

vars == <<self, frame, calls, pc, args, ret>>

None == <<>>
Some(v) == <<v>>

----------------------------------------------------------------------------
(* Bounds of the model *)

\* number of points in x, y handed to fit_function
NPts == 2

\* rounds of the fit_function loop the model follows (the code has no cap)
RoundCap == 3

\* wavelengths are 1..MaxW; range and limit endpoints are 0..MaxW+1
MaxW == 2

\* longest list of ranges handed to ranges_to_mask
MaxRanges == 2

\* longest list of limits handed to limits_to_masks
MaxLimits == 3

\* longest flux vector handed to the flux transform
MaxFluxLen == 2

----------------------------------------------------------------------------
(* Program constants *)

\* self.max_iter = max_iter if max_iter is not None else 5
DefaultMaxIter == 5

\* safe_log keeps x > 1e-7: e^k > 1e-7 exactly when k >= -16 (ln 1e-7 = -16.1)
LnEpsilonCeil == -16

\* safe_exp keeps x < 100
ExpGuard == 100

\* e^k < 100 exactly when k <= 4 (ln 100 = 4.6)
LnExpGuardFloor == 4

----------------------------------------------------------------------------
(* Boolean masks over a vector of n points (numpy bool arrays) *)

Masks(n) == [1..n -> BOOLEAN]

\* np.full(shape, v)
Full(n, v) == [k \in 1..n |-> v]

\* mask.sum()
MaskSum(m) == Cardinality({k \in DOMAIN m : m[k]})

\* a & b and a | b, element by element
MaskAnd(a, b) == [k \in DOMAIN a |-> a[k] /\ b[k]]
MaskOr(a, b) == [k \in DOMAIN a |-> a[k] \/ b[k]]

----------------------------------------------------------------------------
(* ContinuumModel.__init__ : the state of a fresh instance, for the        *)
(* constructor arguments continuum_finder ("None" or the finder "self"),   *)
(* max_iter (None or <<n>>) and trace (whether a trace sink is attached).  *)

NewModel(continuum_finder, max_iter, trace) ==
    [ trace            |-> trace,
      continuum_finder |-> continuum_finder,
      max_iter         |-> IF max_iter # None THEN max_iter[1] ELSE DefaultMaxIter,
      use_log_flux     |-> FALSE,
      wave             |-> None,
      include_ranges   |-> None,
      include_mask     |-> None,
      include_overflow |-> None,
      exclude_ranges   |-> None,
      exclude_mask     |-> None,
      exclude_overflow |-> None ]

----------------------------------------------------------------------------
(* fit_function: parameter vectors.                                        *)
(* func is an external collaborator, so the vector func.fit returns is a   *)
(* token naming the call that produced it: the points it was fitted on and *)
(* the number of the call.  len is the length of the vector.               *)

NoParams == [kind |-> "None", len |-> 0, on |-> None, call |-> 0]

\* the initial estimate p0 a caller supplies
P0Params(param_count) == [kind |-> "p0", len |-> param_count, on |-> None, call |-> 0]

\* what the n-th func.fit call returns, fitted on x[mask], y[mask]
FitResult(param_count, mask, n) == [kind |-> "fit", len |-> param_count, on |-> mask, call |-> n]

\* np.full(param_count, np.nan)
NaNVector(param_count) == [kind |-> "nan", len |-> param_count, on |-> None, call |-> 0]

\* func.eval(x, params): the model values, named by the params they come from
Eval(params) == [of |-> params]

IdleFrame ==
    [ param_count      |-> 0,
      min_point_count  |-> 0,
      p0               |-> NoParams,
      mask_arg         |-> None,
      continuum_finder |-> "None",
      mask             |-> None,
      iter             |-> 0,
      params           |-> NoParams,
      success          |-> FALSE,
      need_more_iter   |-> FALSE ]

NoCalls ==
    [ nFit   |-> 0,  fitOn    |-> None, fitP0    |-> NoParams,
      nFind  |-> 0,  findIter |-> 0,    findMask |-> None, findModel |-> Eval(NoParams),
      findRet |-> None,
      nTrace |-> 0,  traceIter |-> 0 ]

\* line 429: the finder argument wins over the finder of the instance
ResolveFinder(continuum_finder, self_continuum_finder) ==
    IF continuum_finder # "None" THEN continuum_finder ELSE self_continuum_finder

\* faulty variant: the loop starts from all points, whatever mask is given
InitialMaskAllPoints(mask) == Full(NPts, TRUE)

\* lines 431-434: all points when no mask is given, else a copy of the mask
InitialMask(mask) ==
    IF mask = None THEN Full(NPts, TRUE) ELSE mask

\* faulty variant: with a trace attached round 0 always fits, so that the trace
\* sees a fit
UsesP0UnlessTraced(f, s) ==
    f.iter = 0 /\ f.p0 # NoParams /\ s.continuum_finder # "None" /\ ~s.trace

\* line 440: the round takes p0 as its params instead of fitting
UsesP0(f, s) ==
    f.iter = 0 /\ f.p0 # NoParams /\ s.continuum_finder # "None"

\* faulty variant: func.fit is given every point, whatever the mask
FitPointsUnmasked(mask) == Full(NPts, TRUE)

\* lines 446-448: the points func.fit is given
FitPoints(mask) == mask

\* lines 461-462: without a finder the loop ends after the round
BreaksWithoutFinder(f) == f.continuum_finder = "None"

\* faulty variant: the loop goes on whenever the new mask keeps enough points
ContinuesWhileEnoughPoints(mask, need_more_iter, min_point_count) ==
    ~(MaskSum(mask) < min_point_count)

\* lines 470-475: after finder.find, the loop goes on only if the finder asks
\* for more and the new mask keeps enough points
ContinuesAfterFind(mask, need_more_iter, min_point_count) ==
    need_more_iter /\ ~(MaskSum(mask) < min_point_count)

\* lines 477-480
ReturnValue(f) ==
    IF f.success
    THEN [success |-> TRUE, params |-> f.params]
    ELSE [success |-> FALSE, params |-> NaNVector(f.param_count)]

----------------------------------------------------------------------------
(* fit_function: the call, a round's fit, a round's finder call, the       *)
(* return.  The weights w and the keyword arguments are handed through to  *)
(* func.fit and finder.find unread and are left out.  The finder may       *)
(* return any mask over the points and either answer.                      *)

ParamCounts == {1, 2}
MinPointCounts == {1, 2}

\* one run of the program: the instance, the locals of fit_function, the
\* calls made on the collaborators, the position, the value returned
Current == [self |-> self, frame |-> frame, calls |-> calls, pc |-> pc, ret |-> ret]

\* the run goes on as r
Becomes(r) ==
    /\ self' = r.self
    /\ frame' = r.frame
    /\ calls' = r.calls
    /\ pc' = r.pc
    /\ ret' = r.ret

\* lines 420-438
EnterStep(r, param_count, min_point_count, has_p0, mask, continuum_finder) ==
    [r EXCEPT
       !.frame = [ param_count      |-> param_count,
                   min_point_count  |-> min_point_count,
                   p0               |-> IF has_p0 THEN P0Params(param_count) ELSE NoParams,
                   mask_arg         |-> mask,
                   continuum_finder |-> ResolveFinder(continuum_finder, r.self.continuum_finder),
                   mask             |-> InitialMask(mask),
                   iter             |-> 0,
                   params           |-> NoParams,
                   success          |-> FALSE,
                   need_more_iter   |-> FALSE ],
       !.calls = NoCalls,
       !.pc    = "fit"]

\* lines 440-462: one round's fit (or reuse of p0), the trace hook, success
RoundFitStep(r) ==
    LET fitted == ~UsesP0(r.frame, r.self)
        params == IF fitted
                  THEN FitResult(r.frame.param_count, FitPoints(r.frame.mask), r.calls.nFit + 1)
                  ELSE r.frame.p0
    IN [r EXCEPT
          !.frame = [@ EXCEPT !.params = params, !.success = TRUE],
          !.calls = [@ EXCEPT
                       !.nFit      = IF fitted THEN @ + 1 ELSE @,
                       !.fitOn     = IF fitted THEN FitPoints(r.frame.mask) ELSE @,
                       !.fitP0     = IF fitted THEN r.frame.params ELSE @,
                       !.nTrace    = IF r.self.trace THEN @ + 1 ELSE @,
                       !.traceIter = IF r.self.trace THEN r.frame.iter ELSE @],
          !.pc    = IF BreaksWithoutFinder(r.frame) THEN "return" ELSE "find"]

\* lines 464-475: evaluate the model, ask the finder, count the round; the
\* finder answers (mask, need_more_iter)
RoundFindStep(r, mask, need_more_iter) ==
    [r EXCEPT
       !.frame = [@ EXCEPT !.mask = mask, !.iter = @ + 1,
                           !.need_more_iter = need_more_iter],
       !.calls = [@ EXCEPT !.nFind = @ + 1,
                           !.findIter = r.frame.iter,
                           !.findMask = r.frame.mask,
                           !.findModel = Eval(r.frame.params),
                           !.findRet = mask],
       !.pc    = IF ContinuesAfterFind(mask, need_more_iter, r.frame.min_point_count)
                 THEN "fit" ELSE "return"]

\* lines 477-480
ReturnStep(r) == [r EXCEPT !.ret = ReturnValue(r.frame), !.pc = "done"]

\* lines 420-438
FitFunctionEnter ==
    /\ pc = "idle"
    /\ \E param_count \in ParamCounts, min_point_count \in MinPointCounts,
          has_p0 \in BOOLEAN, mask \in {None} \cup Masks(NPts),
          continuum_finder \in {"None", "arg"} :
          Becomes(EnterStep(Current, param_count, min_point_count, has_p0, mask,
                            continuum_finder))
    /\ UNCHANGED args

\* lines 440-462
RoundFit ==
    /\ pc = "fit"
    /\ Becomes(RoundFitStep(Current))
    /\ UNCHANGED args

\* lines 464-475
RoundFind ==
    /\ pc = "find"
    /\ frame.iter < RoundCap
    /\ \E mask \in Masks(NPts), need_more_iter \in BOOLEAN :
          Becomes(RoundFindStep(Current, mask, need_more_iter))
    /\ UNCHANGED args

\* lines 477-480
FitFunctionReturn ==
    /\ pc = "return"
    /\ Becomes(ReturnStep(Current))
    /\ UNCHANGED args

MaxIterArgs == {None, <<1>>, <<2>>}

InitFit ==
    /\ self \in {NewModel(cf, mi, tr) :
                    cf \in {"None", "self"}, mi \in MaxIterArgs, tr \in BOOLEAN}
    /\ frame = IdleFrame
    /\ calls = NoCalls
    /\ pc = "idle"
    /\ args = None
    /\ ret = None

NextFit ==
    \/ FitFunctionEnter
    \/ RoundFit
    \/ RoundFind
    \/ FitFunctionReturn

SpecFit == InitFit /\ [][NextFit]_vars

----------------------------------------------------------------------------
(* Claims about fit_function, checked under SpecFit *)

\* the mask the call starts from: the caller's, or all points
StartMask == IF frame.mask_arg = None THEN Full(NPts, TRUE) ELSE frame.mask_arg

\* a finder is in use by the running call
FinderInUse == pc # "idle" /\ frame.continuum_finder # "None"

\* the first finder call has just answered need_more_iter = false
FirstFindSaidStop == FinderInUse /\ calls.nFind = 1 /\ ~frame.need_more_iter

\* round 0 took p0 instead of fitting
Round0ReusedP0 == frame.p0 # NoParams /\ self.continuum_finder # "None"

Stopped == pc \in {"return", "done"}

\* C1: with no continuum finder configured (neither on the instance nor as
\* argument) fit_function calls func.fit exactly once, on the points the input
\* mask selects (all points for mask None), never calls a finder, and returns
\* (True, params) with params the result of that one fit.
C1_NoFinderSingleFit ==
    (pc # "idle" /\ frame.continuum_finder = "None") =>
        /\ calls.nFind = 0
        /\ calls.nFit <= 1
        /\ pc \in {"return", "done"} =>
              /\ calls.nFit = 1
              /\ calls.fitOn = StartMask
        /\ pc = "done" =>
              ret = [success |-> TRUE,
                     params  |-> FitResult(frame.param_count, StartMask, 1)]

\* C1 witness: a finished call without finder, with p0 and a mask that leaves out points
C1_Witness ==
    /\ pc = "done"
    /\ frame.continuum_finder = "None"
    /\ frame.p0 # NoParams
    /\ frame.mask_arg # None
    /\ MaskSum(frame.mask_arg) = 1
    /\ calls.nFit = 1

\* C2 (as stated in the claim): when the finder's first answer is
\* need_more_iter = false, the call stops with success after exactly 2 func.fit
\* calls, or exactly 1 when round 0 reused p0.
C2_TwoFitsThenStop ==
    FirstFindSaidStop =>
        /\ Stopped
        /\ frame.success
        /\ calls.nFit = IF Round0ReusedP0 THEN 1 ELSE 2

\* C2 (amended): when the finder's first answer is need_more_iter = false, the
\* call stops with success after exactly 1 func.fit call, the one of round 0 on
\* the starting mask (the mask the finder returned is never fitted), or after
\* exactly 0 func.fit calls when round 0 reused p0; it returns the params of
\* round 0.
C2_OneFitThenStop ==
    FirstFindSaidStop =>
        /\ Stopped
        /\ frame.success
        /\ calls.nFit = IF Round0ReusedP0 THEN 0 ELSE 1
        /\ calls.nFit = 1 => calls.fitOn = StartMask
        /\ pc = "done" =>
              ret = [success |-> TRUE,
                     params  |-> IF Round0ReusedP0 THEN frame.p0
                                 ELSE FitResult(frame.param_count, StartMask, 1)]

\* C2 witness: the finder answered "stop" with a mask other than the fitted one,
\* that keeps enough points, and the call returned after its single fit
C2_Witness ==
    /\ pc = "done"
    /\ FirstFindSaidStop
    /\ calls.nFit = 1
    /\ frame.mask # calls.fitOn
    /\ MaskSum(frame.mask) >= frame.min_point_count

\* C3 (as stated in the claim): the rounds of one call, counted as func.fit
\* calls and as finder.find calls, never exceed self.max_iter.
C3_RoundsWithinMaxIter ==
    /\ calls.nFit <= self.max_iter
    /\ calls.nFind <= self.max_iter

\* C4 (as stated in the claim): a call that executed no func.fit returns
\* (False, NaN vector of length param_count); success is True only after a
\* func.fit call; the params returned are a fit result or the NaN vector.
C4_SuccessOnlyAfterFit ==
    pc = "done" =>
        /\ calls.nFit = 0 =>
              ret = [success |-> FALSE, params |-> NaNVector(frame.param_count)]
        /\ ret.success => calls.nFit >= 1
        /\ ret.params.kind \in {"fit", "nan"}

\* C5 (as stated in the claim): when the mask the finder returned selects fewer
\* than min_point_count points the loop stops at once, and the call returns
\* success with the params of the last completed func.fit call.
C5_FloorStopsWithLastFit ==
    (FinderInUse /\ calls.nFind >= 1 /\ MaskSum(frame.mask) < frame.min_point_count) =>
        /\ Stopped
        /\ pc = "done" =>
              /\ ret.success
              /\ calls.nFit >= 1
              /\ ret.params = FitResult(frame.param_count, calls.fitOn, calls.nFit)

\* p0 was supplied and a finder is configured, on the instance or as argument
P0WithFinder == frame.p0 # NoParams /\ frame.continuum_finder # "None"

\* C14 (as stated in the claim): the fit step of round 0 with p0 supplied and
\* a finder configured, on the instance or through the argument, calls no
\* func.fit and takes p0 as the round's params; every other fit step calls
\* func.fit once, on the points of the active mask, seeded with the params of
\* the round before.
C14_Round0TakesP0ElseFits ==
    [][pc = "fit" =>
          IF frame.iter = 0 /\ P0WithFinder
          THEN /\ calls'.nFit = calls.nFit
               /\ frame'.params = frame.p0
          ELSE /\ calls'.nFit = calls.nFit + 1
               /\ calls'.fitOn = frame.mask
               /\ calls'.fitP0 = frame.params
               /\ frame'.params = FitResult(frame.param_count, frame.mask, calls'.nFit)]_vars

\* C15 (as stated in the claim): func.fit is never called on fewer than
\* min_point_count points, the starting mask of the call included: the points
\* of the latest func.fit call are at least min_point_count.
C15_NeverFitsBelowMinPoints ==
    calls.nFit >= 1 => MaskSum(calls.fitOn) >= frame.min_point_count

\* the params of the running round: the result of the round's func.fit on the
\* active mask, or p0 in a round 0 that has made no finder call yet
ParamsOfRound ==
    \/ frame.params = FitResult(frame.param_count, frame.mask, calls.nFit)
    \/ calls.nFind = 0 /\ frame.params = frame.p0 /\ frame.p0 # NoParams

\* C16: with a finder, the k-th finder.find call of a call gets iteration
\* index k-1, the model evaluated from the params of round k-1 and, as mask,
\* the mask the (k-1)-th find returned (for k = 1 the caller's mask, or all
\* points when none was given); after the call the active mask is the mask the
\* finder returned and the counter is k; the caller's mask is never changed.
C16_FindSeesRoundIndexAndPreviousMask ==
    [][/\ pc = "find" =>
             /\ calls'.nFind = calls.nFind + 1
             /\ calls'.findIter = calls.nFind
             /\ calls'.findMask = IF calls.nFind = 0 THEN StartMask ELSE calls.findRet
             /\ ParamsOfRound
             /\ calls'.findModel = Eval(frame.params)
             /\ frame'.mask = calls'.findRet
             /\ frame'.iter = calls'.nFind
       /\ pc # "idle" => frame'.mask_arg = frame.mask_arg]_vars

\* C16 witness: a second finder call, in a call that was given a mask, got a
\* mask other than the caller's and returned yet another one
C16_Witness ==
    /\ calls.nFind = 2
    /\ calls.findIter = 1
    /\ frame.mask_arg # None
    /\ calls.findMask # frame.mask_arg
    /\ frame.mask = calls.findRet
    /\ frame.mask # calls.findMask

----------------------------------------------------------------------------
(* The mask builders: lessthan, ranges_to_mask, limits_to_masks.           *)
(* A wave vector is a non-empty increasing sequence of wavelengths.  A     *)
(* range is a pair <<lo, hi>>.  dlambda is <<d>> for a scalar buffer and   *)
(* <<dlo, dhi>> for a pair.  Indices into ranges and limits are 0-based,   *)
(* as the code's enumerate() and range() give them.                        *)

\* lines 223-228
lessthan(a, b, strict) == IF strict THEN a < b ELSE a <= b

\* lines 262-263, 292-293: a scalar buffer applies to both ends
BufferPair(dlambda) ==
    IF Len(dlambda) = 1 THEN <<dlambda[1], dlambda[1]>> ELSE dlambda

\* lines 270, 306: the buffered interval reaches outside the wave vector
Overflows(wave, lo, hi, d) ==
    lo + d[1] < wave[1] \/ hi - d[2] > wave[Len(wave)]

\* faulty variant: the upper bound is compared as the lower one is, strict or not,
\* but the lower bound is always compared inclusively
IntervalMaskLowInclusive(wave, lo, hi, d, strict) ==
    [k \in DOMAIN wave |->
        lessthan(lo + d[1], wave[k], FALSE) /\ lessthan(wave[k], hi - d[2], strict)]

\* lines 276-277, 311-312: the points of wave inside the buffered interval
IntervalMask(wave, lo, hi, d, strict) ==
    [k \in DOMAIN wave |->
        lessthan(lo + d[1], wave[k], strict) /\ lessthan(wave[k], hi - d[2], strict)]

\* lines 280-281, 315-316: combine with the optional input mask
CombineMask(m, mask) == IF mask # None THEN MaskAnd(m, mask) ELSE m

\* faulty variant: an overflowing range is always left out of the mask
SkipsRangeOnOverflow(overflows, omit_overflow) == overflows

\* lines 272-273, 308-309: an overflowing range is left out when asked
SkipsRange(overflows, omit_overflow) == overflows /\ omit_overflow

\* lines 268-277: the loop over ranges from the i-th on (i is 1-based here),
\* with the mask m and the overflow list built so far
RECURSIVE RangesLoop(_, _, _, _, _, _, _, _)
RangesLoop(wave, ranges, d, strict, omit_overflow, i, m, overflow) ==
    IF i > Len(ranges) THEN [mask |-> m, overflow |-> overflow]
    ELSE LET r  == ranges[i]
             ov == Overflows(wave, r[1], r[2], d)
         IN RangesLoop(wave, ranges, d, strict, omit_overflow, i + 1,
                IF SkipsRange(ov, omit_overflow) THEN m
                ELSE MaskOr(m, IntervalMask(wave, r[1], r[2], d, strict)),
                IF ov THEN Append(overflow, i - 1) ELSE overflow)

\* lines 230-283; ranges is a list of ranges (lines 259-260 wrap a value that
\* is not iterable, which a list never is)
ranges_to_mask(wave, ranges, mask, dlambda, strict, omit_overflow) ==
    LET acc == RangesLoop(wave, ranges, BufferPair(dlambda), strict, omit_overflow,
                          1, Full(Len(wave), FALSE), <<>>)
    IN [mask |-> CombineMask(acc.mask, mask), overflow |-> acc.overflow]

\* a float that may be NaN
Float(v) == [nan |-> FALSE, v |-> v]
NaN == [nan |-> TRUE, v |-> 0]

\* wave[m]: the wavelengths the mask selects, in order
RECURSIVE Select(_, _, _)
Select(wave, m, k) ==
    IF k > Len(wave) THEN <<>>
    ELSE (IF m[k] THEN <<wave[k]>> ELSE <<>>) \o Select(wave, m, k + 1)

\* faulty variant: the range ends at the first selected wavelength
ActualRangeFirstOnly(wave, m) ==
    LET w == Select(wave, m, 1)
    IN IF Len(w) > 0 THEN <<Float(w[1]), Float(w[1])>> ELSE <<NaN, NaN>>

\* lines 320-325: the range the mask covers, or (nan, nan)
ActualRange(wave, m) ==
    LET w == Select(wave, m, 1)
    IN IF Len(w) > 0 THEN <<Float(w[1]), Float(w[Len(w)])>> ELSE <<NaN, NaN>>

\* lines 302-303: a None limit stands for the first (as lower limit) or the
\* last (as upper limit) wavelength
LimitOr(l, default) == IF l # None THEN l[1] ELSE default

\* lines 299-325: the loop over the intervals from the i-th on (1-based here)
RECURSIVE LimitsLoop(_, _, _, _, _, _, _, _)
LimitsLoop(wave, limits, mask, d, strict, omit_overflow, i, acc) ==
    IF i > Len(limits) - 1 THEN acc
    ELSE LET l0 == LimitOr(limits[i], wave[1])
             l1 == LimitOr(limits[i + 1], wave[Len(wave)])
             ov == Overflows(wave, l0, l1, d)
             overflow == IF ov THEN Append(acc.overflow, i - 1) ELSE acc.overflow
             m  == CombineMask(IntervalMask(wave, l0, l1, d, strict), mask)
         IN LimitsLoop(wave, limits, mask, d, strict, omit_overflow, i + 1,
                IF SkipsRange(ov, omit_overflow)
                THEN [acc EXCEPT !.overflow = overflow]
                ELSE [masks    |-> Append(acc.masks, m),
                      ranges   |-> Append(acc.ranges, ActualRange(wave, m)),
                      overflow |-> overflow])

\* lines 285-327
limits_to_masks(wave, limits, mask, dlambda, strict, omit_overflow) ==
    LimitsLoop(wave, limits, mask, BufferPair(dlambda), strict, omit_overflow, 1,
               [masks |-> <<>>, ranges |-> <<>>, overflow |-> <<>>])

----------------------------------------------------------------------------
(* Calls of the mask builders on bounded inputs *)

\* the elements of a set of numbers, in increasing order
Increasing(S) ==
    CHOOSE w \in [1..Cardinality(S) -> S] :
        \A i, j \in 1..Cardinality(S) : i < j => w[i] < w[j]

\* the wave vectors: sorted, non-empty
Waves == {Increasing(S) : S \in (SUBSET (1..MaxW)) \ {{}}}

\* range and limit endpoints reach one step outside the wavelengths
Endpoints == 0..(MaxW + 1)

Ranges == {r \in Endpoints \X Endpoints : r[1] < r[2]}

RangeLists == UNION {[1..n -> Ranges] : n \in 0..MaxRanges}

\* ordered limits, where the first and the last may be None
LimitLists ==
    LET ordered == {Increasing(S) : S \in {T \in SUBSET Endpoints : Cardinality(T) <= MaxLimits}}
    IN UNION {{ [k \in DOMAIN l |->
                    IF (k = 1 /\ first) \/ (k = Len(l) /\ last) THEN None ELSE <<l[k]>>] :
                first \in BOOLEAN, last \in BOOLEAN } : l \in ordered}

Buffers == {<<0>>, <<1>>, <<1, 0>>, <<0, -1>>}

MaskArgs(wave) == {None} \cup Masks(Len(wave))

InitMask ==
    /\ self = NewModel("None", None, FALSE)
    /\ frame = IdleFrame
    /\ calls = NoCalls
    /\ pc = "call"
    /\ ret = None
    /\ \E wave \in Waves, dlambda \in Buffers, strict \in BOOLEAN, omit_overflow \in BOOLEAN :
         \E mask \in MaskArgs(wave) :
            \/ \E ranges \in RangeLists :
                  args = [op |-> "ranges_to_mask", wave |-> wave, ranges |-> ranges,
                          limits |-> None, mask |-> mask, dlambda |-> dlambda,
                          strict |-> strict, omit_overflow |-> omit_overflow]
            \/ \E limits \in LimitLists :
                  args = [op |-> "limits_to_masks", wave |-> wave, ranges |-> None,
                          limits |-> limits, mask |-> mask, dlambda |-> dlambda,
                          strict |-> strict, omit_overflow |-> omit_overflow]

\* lines 230-283
RangesToMask ==
    /\ pc = "call"
    /\ args.op = "ranges_to_mask"
    /\ ret' = ranges_to_mask(args.wave, args.ranges, args.mask, args.dlambda,
                             args.strict, args.omit_overflow)
    /\ pc' = "done"
    /\ UNCHANGED <<self, frame, calls, args>>

\* lines 285-327
LimitsToMasks ==
    /\ pc = "call"
    /\ args.op = "limits_to_masks"
    /\ ret' = limits_to_masks(args.wave, args.limits, args.mask, args.dlambda,
                              args.strict, args.omit_overflow)
    /\ pc' = "done"
    /\ UNCHANGED <<self, frame, calls, args>>

NextMask ==
    \/ RangesToMask
    \/ LimitsToMasks

SpecMask == InitMask /\ [][NextMask]_vars

----------------------------------------------------------------------------
(* Claims about the mask builders, checked under SpecMask *)

RangesToMaskDone == pc = "done" /\ args.op = "ranges_to_mask"
LimitsToMasksDone == pc = "done" /\ args.op = "limits_to_masks"

\* the low and the high buffer of the call
LowBuffer == args.dlambda[1]
HighBuffer == args.dlambda[Len(args.dlambda)]

\* wavelength w lies in the buffered interval (lo, hi) under the call's comparison
Inside(lo, hi, w) ==
    IF args.strict
    THEN lo + LowBuffer < w /\ w < hi - HighBuffer
    ELSE lo + LowBuffer <= w /\ w <= hi - HighBuffer

\* the buffered interval (lo, hi) leaves the wave vector
Outside(lo, hi) ==
    lo + LowBuffer < args.wave[1] \/ hi - HighBuffer > args.wave[Len(args.wave)]

\* the existing mask, when given, lets point k through
Allowed(k) == args.mask = None \/ args.mask[k]

\* C8: with omit_overflow = false, ranges_to_mask returns a mask as long as
\* wave that is true at k exactly when wave[k] lies in some buffered range
\* (<= for strict = false, < for strict = true, the same for every range) and
\* the existing mask, when given, is true at k.
C8_MaskIsUnionWithinExisting ==
    (RangesToMaskDone /\ ~args.omit_overflow) =>
        /\ Len(ret.mask) = Len(args.wave)
        /\ \A k \in 1..Len(args.wave) :
              ret.mask[k] <=>
                 /\ \E i \in DOMAIN args.ranges :
                       Inside(args.ranges[i][1], args.ranges[i][2], args.wave[k])
                 /\ Allowed(k)

\* C8 witness: two ranges, strict comparison, an existing mask that removes a
\* point one of the ranges covers, and a point that stays
C8_Witness ==
    /\ RangesToMaskDone
    /\ ~args.omit_overflow
    /\ args.strict
    /\ Len(args.ranges) = 2
    /\ args.mask # None
    /\ \E k \in DOMAIN args.wave : ret.mask[k]
    /\ \E k \in DOMAIN args.wave :
          /\ ~args.mask[k]
          /\ \E i \in DOMAIN args.ranges :
                Inside(args.ranges[i][1], args.ranges[i][2], args.wave[k])

\* the 0-based indices of the ranges that overflow
OverflowingRanges ==
    {i - 1 : i \in {j \in DOMAIN args.ranges :
                       Outside(args.ranges[j][1], args.ranges[j][2])}}

\* C9: the overflow list of ranges_to_mask holds, in increasing order, exactly
\* the indices i of the ranges with lo_i + lowBuffer < wave[0] or
\* hi_i - highBuffer > wave[-1]; with omit_overflow = true the mask is built
\* from the other ranges only, and with omit_overflow = false an overflowing
\* range still contributes every wave element inside its bounds.
C9_OverflowListAndOmission ==
    RangesToMaskDone =>
        /\ ret.overflow = Increasing(OverflowingRanges)
        /\ args.omit_overflow =>
              \A k \in 1..Len(args.wave) :
                 ret.mask[k] <=>
                    /\ \E i \in DOMAIN args.ranges :
                          /\ (i - 1) \notin OverflowingRanges
                          /\ Inside(args.ranges[i][1], args.ranges[i][2], args.wave[k])
                    /\ Allowed(k)
        /\ ~args.omit_overflow =>
              \A k \in 1..Len(args.wave), i \in DOMAIN args.ranges :
                 ( /\ (i - 1) \in OverflowingRanges
                   /\ Inside(args.ranges[i][1], args.ranges[i][2], args.wave[k])
                   /\ Allowed(k) ) => ret.mask[k]

\* C9 witness: omit_overflow = true, the second of two ranges overflows below
\* wave[0] and covers a wavelength, which the mask leaves false
C9_Witness ==
    /\ RangesToMaskDone
    /\ args.omit_overflow
    /\ Len(args.ranges) = 2
    /\ ret.overflow = <<1>>
    /\ args.ranges[2][1] + LowBuffer < args.wave[1]
    /\ \E k \in DOMAIN args.wave :
          /\ Inside(args.ranges[2][1], args.ranges[2][2], args.wave[k])
          /\ Allowed(k)
          /\ ~ret.mask[k]

\* the bounds of the i-th interval between limits (i is 1-based), a None limit
\* standing for the first wavelength below and the last wavelength above
IntervalLow(i) ==
    IF args.limits[i] = None THEN args.wave[1] ELSE args.limits[i][1]
IntervalHigh(i) ==
    IF args.limits[i + 1] = None THEN args.wave[Len(args.wave)] ELSE args.limits[i + 1][1]

\* the points of wave the i-th interval selects
IntervalPoints(i) ==
    {k \in 1..Len(args.wave) :
        Inside(IntervalLow(i), IntervalHigh(i), args.wave[k]) /\ Allowed(k)}

\* the 1-based number of the interval behind the j-th returned mask, when the
\* returned masks are those of the intervals in `kept`, in order
NthOf(kept, j) == Increasing(kept)[j]

\* the masks and actual ranges returned are those of the intervals in `kept`
ReturnsIntervals(kept) ==
    /\ Len(ret.masks) = Cardinality(kept)
    /\ Len(ret.ranges) = Cardinality(kept)
    /\ \A j \in 1..Cardinality(kept) :
          LET pts == IntervalPoints(NthOf(kept, j))
          IN /\ ret.masks[j] = [k \in 1..Len(args.wave) |-> k \in pts]
             /\ ret.ranges[j] =
                   IF pts = {} THEN <<NaN, NaN>>
                   ELSE << Float(args.wave[CHOOSE k \in pts : \A q \in pts : k <= q]),
                           Float(args.wave[CHOOSE k \in pts : \A q \in pts : k >= q]) >>

\* C10 (as stated in the claim): for N >= 1 limits, limits_to_masks returns
\* exactly N-1 masks and N-1 actual ranges under every combination of options,
\* the i-th being those of the interval (limits[i], limits[i+1]).
C10_AlwaysOnePerInterval ==
    (LimitsToMasksDone /\ Len(args.limits) >= 1) =>
        ReturnsIntervals(1..(Len(args.limits) - 1))

\* C10 (amended): limits_to_masks returns one mask and one actual range for
\* every interval it does not omit, in order: all N-1 intervals when
\* omit_overflow = false, and only the intervals that do not overflow when
\* omit_overflow = true (the indices of the overflowing ones are in the
\* overflow list).  Each mask is the mask of its interval, a None limit being
\* replaced by the first/last wavelength, and each actual range is the
\* (first, last) wavelength the mask selects, or (NaN, NaN) if it selects none.
C10_OnePerKeptInterval ==
    LimitsToMasksDone =>
        LET all  == 1..(Len(args.limits) - 1)
            over == {i \in all : Outside(IntervalLow(i), IntervalHigh(i))}
        IN /\ ret.overflow = Increasing({i - 1 : i \in over})
           /\ ReturnsIntervals(IF args.omit_overflow THEN all \ over ELSE all)

\* C10 witness: three limits with omit_overflow = true, the first interval
\* overflows and is dropped, the second is returned with a non-empty range
C10_Witness ==
    /\ LimitsToMasksDone
    /\ args.omit_overflow
    /\ Len(args.limits) = 3
    /\ ret.overflow = <<0>>
    /\ Len(ret.masks) = 1
    /\ ret.ranges[1] # <<NaN, NaN>>
    /\ ret.ranges[1][1] # ret.ranges[1][2]

----------------------------------------------------------------------------
(* The wave and mask cache of one instance: assignments to include_ranges  *)
(* and exclude_ranges, init_wave, fit.                                     *)

\* lines 196-197
BindWave(s, wave, force) ==
    IF force \/ s.wave = None THEN [s EXCEPT !.wave = wave] ELSE s

\* lines 199-202: the include mask is computed from the wave passed in
InitIncludeMask(s, wave, force, omit_overflow) ==
    IF s.include_ranges # None /\ (force \/ s.include_mask = None)
    THEN LET r == ranges_to_mask(wave, s.include_ranges[1], None, <<0>>, FALSE, omit_overflow)
         IN [s EXCEPT !.include_mask = r.mask, !.include_overflow = Some(r.overflow)]
    ELSE s

\* lines 204-207: the exclude mask is computed from the wave passed in
InitExcludeMask(s, wave, force, omit_overflow) ==
    IF s.exclude_ranges # None /\ (force \/ s.exclude_mask = None)
    THEN LET r == ranges_to_mask(wave, s.exclude_ranges[1], None, <<0>>, FALSE, omit_overflow)
         IN [s EXCEPT !.exclude_mask = r.mask, !.exclude_overflow = Some(r.overflow)]
    ELSE s

\* lines 191-207
init_wave(s, wave, force, omit_overflow) ==
    InitExcludeMask(
        InitIncludeMask(BindWave(s, wave, force), wave, force, omit_overflow),
        wave, force, omit_overflow)

\* lines 343-345: fit binds the wave of the spectrum only when none is bound
FitBind(s, spec_wave) ==
    IF s.wave = None THEN init_wave(s, spec_wave, TRUE, FALSE) ELSE s

\* the lists of ranges an instance is configured with: None, or one range
\* between neighbouring endpoints
ConfiguredRanges == {None} \cup {Some(<<q>>) : q \in {r \in Ranges : r[2] = r[1] + 1}}

\* the last operation on the instance; only fit keeps its argument
Did(op, wave) == [op |-> op, wave |-> wave]

\* line 47: self.include_ranges = ranges
SetIncludeRanges ==
    /\ \E ranges \in ConfiguredRanges :
          self' = [self EXCEPT !.include_ranges = ranges]
    /\ args' = Did("assign", None)
    /\ UNCHANGED <<frame, calls, pc, ret>>

\* line 50: self.exclude_ranges = ranges
SetExcludeRanges ==
    /\ \E ranges \in ConfiguredRanges :
          self' = [self EXCEPT !.exclude_ranges = ranges]
    /\ args' = Did("assign", None)
    /\ UNCHANGED <<frame, calls, pc, ret>>

\* lines 191-207
InitWave ==
    /\ \E wave \in Waves, force \in BOOLEAN, omit_overflow \in BOOLEAN :
          self' = init_wave(self, wave, force, omit_overflow)
    /\ args' = Did("init_wave", None)
    /\ UNCHANGED <<frame, calls, pc, ret>>

\* lines 331-382: fit(spec) binds the wave if none is bound, and with a trace
\* attached reports to on_fit_start and to on_fit_finish
FitStep(r, spec_wave) ==
    [r EXCEPT !.self  = FitBind(r.self, spec_wave),
              !.calls = [@ EXCEPT !.nTrace = IF r.self.trace THEN @ + 2 ELSE @]]

\* lines 331-382: fit(spec); fit_impl, the trace and eval then work on the
\* wave and the masks cached on the instance
Fit ==
    /\ \E spec_wave \in Waves :
          /\ Becomes(FitStep(Current, spec_wave))
          /\ args' = Did("fit", spec_wave)

InitCache ==
    /\ self = NewModel("None", None, FALSE)
    /\ frame = IdleFrame
    /\ calls = NoCalls
    /\ pc = "idle"
    /\ args = Did("init", None)
    /\ ret = None

NextCache ==
    \/ SetIncludeRanges
    \/ SetExcludeRanges
    \/ InitWave
    \/ Fit

SpecCache == InitCache /\ [][NextCache]_vars

----------------------------------------------------------------------------
(* Claims about the cache, checked under SpecCache *)

\* C6 (as stated in the claim): after any sequence of assignments to
\* include_ranges / exclude_ranges, init_wave calls and fit calls, a cached
\* include_mask or exclude_mask that is not None is as long as self.wave.
C6_MaskLengthIsWaveLength ==
    /\ self.include_mask # None =>
          (self.wave # None /\ Len(self.include_mask) = Len(self.wave))
    /\ self.exclude_mask # None =>
          (self.wave # None /\ Len(self.exclude_mask) = Len(self.wave))

\* C7 (as stated in the claim): a fit works on the wavelength vector of its own
\* spectrum: after fit(spec) the cached wave is spec.wave and the cached masks
\* are masks over spec.wave, also when an earlier call bound another vector.
C7_FitUsesWaveOfItsSpectrum ==
    args.op = "fit" =>
        /\ self.wave = args.wave
        /\ self.include_mask # None => Len(self.include_mask) = Len(args.wave)
        /\ self.exclude_mask # None => Len(self.exclude_mask) = Len(args.wave)

----------------------------------------------------------------------------
(* Two runs side by side: the same instance without and with a trace sink, *)
(* given the same calls, the same arguments and the same answers of func   *)
(* and of the finder.  The run without trace is in the variables of the    *)
(* module, the run with trace is the record kept in args.                  *)

NewRun(s) == [self |-> s, frame |-> IdleFrame, calls |-> NoCalls, pc |-> "idle", ret |-> None]

InitTrace ==
    /\ \E continuum_finder \in {"None", "self"} :
          /\ self = NewModel(continuum_finder, None, FALSE)
          /\ args = NewRun(NewModel(continuum_finder, None, TRUE))
    /\ frame = IdleFrame
    /\ calls = NoCalls
    /\ pc = "idle"
    /\ ret = None

\* lines 331-382: the first fit(spec) of the instance, in both runs
BothFit ==
    /\ pc = "idle"
    /\ self.wave = None
    /\ \E spec_wave \in Waves :
          /\ Becomes(FitStep(Current, spec_wave))
          /\ args' = FitStep(args, spec_wave)

\* lines 420-438, in both runs
BothFitFunctionEnter ==
    /\ pc = "idle"
    /\ \E param_count \in ParamCounts, min_point_count \in MinPointCounts,
          has_p0 \in BOOLEAN, mask \in {None} \cup Masks(NPts),
          continuum_finder \in {"None", "arg"} :
          /\ Becomes(EnterStep(Current, param_count, min_point_count, has_p0, mask,
                               continuum_finder))
          /\ args' = EnterStep(args, param_count, min_point_count, has_p0, mask,
                               continuum_finder)

\* lines 440-462, in both runs
BothRoundFit ==
    /\ pc = "fit"
    /\ Becomes(RoundFitStep(Current))
    /\ args' = RoundFitStep(args)

\* lines 464-475, in both runs, with the same answer of the finder
BothRoundFind ==
    /\ pc = "find"
    /\ frame.iter < RoundCap
    /\ \E mask \in Masks(NPts), need_more_iter \in BOOLEAN :
          /\ Becomes(RoundFindStep(Current, mask, need_more_iter))
          /\ args' = RoundFindStep(args, mask, need_more_iter)

\* lines 477-480, in both runs
BothFitFunctionReturn ==
    /\ pc = "return"
    /\ Becomes(ReturnStep(Current))
    /\ args' = ReturnStep(args)

NextTrace ==
    \/ BothFit
    \/ BothFitFunctionEnter
    \/ BothRoundFit
    \/ BothRoundFind
    \/ BothFitFunctionReturn

SpecTrace == InitTrace /\ [][NextTrace]_vars

----------------------------------------------------------------------------
(* Claims about the trace, checked under SpecTrace *)

\* a run without what only the trace sink sees: whether a sink is attached and
\* the calls made on it
Untraced(r) ==
    [r EXCEPT !.self  = [@ EXCEPT !.trace = FALSE],
              !.calls = [@ EXCEPT !.nTrace = 0, !.traceIter = 0]]

\* C17: the run with a trace sink and the run without agree, after every step,
\* on the position in fit_function, on the locals (mask, iteration index,
\* params, success), on the func.fit and finder.find calls made and their
\* arguments, on the value returned and on the state cached on the instance.
C17_TraceDoesNotChangeFitting ==
    Untraced(args) = Untraced(Current)

\* C17 witness: a fit and a fit_function call with two func.fit calls and two
\* finder calls have returned in both runs, and the sink was called in each round
C17_Witness ==
    /\ pc = "done"
    /\ args.pc = "done"
    /\ self.wave # None
    /\ ret.success
    /\ calls.nFit = 2
    /\ calls.nFind = 2
    /\ calls.nTrace = 0
    /\ args.calls.nTrace = 2
    /\ args.calls.traceIter = 1

----------------------------------------------------------------------------
(* The flux transform: safe_log, safe_log_error, safe_exp, safe_exp_error, *)
(* transform_flux_forward, transform_flux_reverse.                         *)
(*                                                                         *)
(* A number is [sort, k]: sort "exp" is the real e^k, sort "int" is the    *)
(* integer k, sort "nan" is NaN; the other sorts are values no call of the *)
(* model produces from its inputs and are kept symbolic.  So log and exp   *)
(* are exact: log(e^k) = k and exp(k) = e^k.                               *)
(* A Python value is [type, data]: an ndarray with its elements, a 1-tuple *)
(* holding an ndarray (data are the elements of that array), or None.      *)

ExpOf(k) == [sort |-> "exp", k |-> k]
IntOf(k) == [sort |-> "int", k |-> k]
NaNNum == [sort |-> "nan", k |-> 0]

NdArray(data) == [type |-> "ndarray", data |-> data]
Tuple1(array) == [type |-> "tuple", data |-> array.data]
PyNone == [type |-> "None", data |-> <<>>]

\* x > 1e-7 for one element (a comparison with NaN is False)
GreaterThanEpsilon(x) ==
    CASE x.sort = "exp" -> x.k >= LnEpsilonCeil
      [] x.sort = "int" -> x.k >= 1
      [] OTHER          -> FALSE

\* x < 100 for one element (a comparison with NaN is False)
LessThanGuard(x) ==
    CASE x.sort = "exp" -> x.k <= LnExpGuardFloor
      [] x.sort = "int" -> x.k < ExpGuard
      [] OTHER          -> FALSE

\* np.log of one element
NpLog(x) ==
    CASE x.sort = "exp"              -> IntOf(x.k)
      [] x.sort = "int" /\ x.k = 1   -> IntOf(0)
      [] x.sort = "int" /\ x.k > 1   -> [sort |-> "ln", k |-> x.k]
      [] OTHER                       -> NaNNum

\* np.exp of one element
NpExp(x) ==
    CASE x.sort = "int" -> ExpOf(x.k)
      [] x.sort = "nan" -> NaNNum
      [] OTHER          -> [sort |-> "exp(" \o x.sort \o ")", k |-> x.k]

\* sigma / x for one element, sigma = e^j
Divide(sigma, x) ==
    CASE sigma.sort = "exp" /\ x.sort = "exp" -> ExpOf(sigma.k - x.k)
      [] sigma.sort = "nan" \/ x.sort = "nan" -> NaNNum
      [] OTHER -> [sort |-> sigma.sort \o "/" \o x.sort, k |-> sigma.k - x.k]

\* x * sigma for one element, sigma = e^j
Multiply(x, sigma) ==
    CASE x.sort = "exp" /\ sigma.sort = "exp" -> ExpOf(x.k + sigma.k)
      [] x.sort = "nan" \/ sigma.sort = "nan" -> NaNNum
      [] OTHER -> [sort |-> x.sort \o "*" \o sigma.sort, k |-> x.k + sigma.k]

\* the outcome of a call: the exception it raised ("" for none) and its value
Returned(flux, flux_err) == [raised |-> "", flux |-> flux, flux_err |-> flux_err]
Raised(exception) == [raised |-> exception, flux |-> PyNone, flux_err |-> PyNone]

\* `x > 1e-7` and `x < 100` are defined for an ndarray; a tuple compared with
\* a float raises TypeError
Comparable(x) == x.type = "ndarray"

\* lines 484-485: np.log(np.where(x > 1e-7, x, np.nan))
safe_log(x) ==
    NdArray([k \in DOMAIN x.data |->
                NpLog(IF GreaterThanEpsilon(x.data[k]) THEN x.data[k] ELSE NaNNum)])

\* lines 487-488: np.where(x > 1e-7, sigma / x, np.nan)
safe_log_error(x, sigma) ==
    NdArray([k \in DOMAIN x.data |->
                IF GreaterThanEpsilon(x.data[k])
                THEN Divide(sigma.data[k], x.data[k]) ELSE NaNNum])

\* lines 490-491: np.exp(np.where(x < 100, x, np.nan))
safe_exp(x) ==
    NdArray([k \in DOMAIN x.data |->
                NpExp(IF LessThanGuard(x.data[k]) THEN x.data[k] ELSE NaNNum)])

\* lines 493-494: np.where(x < 100, x * sigma, np.nan)
safe_exp_error(x, sigma) ==
    NdArray([k \in DOMAIN x.data |->
                IF LessThanGuard(x.data[k])
                THEN Multiply(x.data[k], sigma.data[k]) ELSE NaNNum])

\* lines 400-405.  Line 402 ends in a comma, so flux becomes the 1-tuple
\* (safe_log(flux),), and line 403 hands that tuple to safe_log_error
transform_flux_forward(s, flux, flux_err) ==
    IF ~s.use_log_flux THEN Returned(flux, flux_err)
    ELSE IF ~Comparable(flux) THEN Raised("TypeError")
    ELSE LET logflux == Tuple1(safe_log(flux))
         IN IF flux_err = PyNone THEN Returned(logflux, PyNone)
            ELSE IF ~Comparable(logflux) THEN Raised("TypeError")
            ELSE Returned(logflux, safe_log_error(logflux, flux_err))

\* lines 407-412.  Line 409 rebinds flux to safe_exp(flux), and line 410
\* hands that linear flux to safe_exp_error
transform_flux_reverse(s, flux, flux_err) ==
    IF ~s.use_log_flux THEN Returned(flux, flux_err)
    ELSE IF ~Comparable(flux) THEN Raised("TypeError")
    ELSE LET linflux == safe_exp(flux)
         IN IF flux_err = PyNone THEN Returned(linflux, PyNone)
            ELSE Returned(linflux, safe_exp_error(linflux, flux_err))

----------------------------------------------------------------------------
(* Calls of the flux transform on bounded inputs *)

\* linear flux: 0, and e^k around the 1e-7 guard and around e^k = 100
LinearFluxValues == {IntOf(0), ExpOf(LnEpsilonCeil - 1), ExpOf(LnEpsilonCeil), ExpOf(0),
                     ExpOf(LnExpGuardFloor + 1)}

\* log-space flux: integers around ln 100 and around the guard 100, and 1000
LogFluxValues == {IntOf(0), IntOf(LnExpGuardFloor), IntOf(LnExpGuardFloor + 1),
                  IntOf(ExpGuard - 1), IntOf(ExpGuard), IntOf(10 * ExpGuard)}

\* uncertainties: 1 and e
SigmaValues == {ExpOf(0), ExpOf(1)}

Vectors(S) == UNION {[1..n -> S] : n \in 1..MaxFluxLen}

FluxErrArgs(flux) == {PyNone} \cup {NdArray(e) : e \in [DOMAIN flux -> SigmaValues]}

FluxCall(op, flux, flux_err) == [op |-> op, flux |-> NdArray(flux), flux_err |-> flux_err]

InitFlux ==
    /\ \E use_log_flux \in BOOLEAN :
          self = [NewModel("None", None, FALSE) EXCEPT !.use_log_flux = use_log_flux]
    /\ frame = IdleFrame
    /\ calls = NoCalls
    /\ pc = "call"
    /\ ret = Returned(PyNone, PyNone)
    /\ \/ \E flux \in Vectors(LinearFluxValues) : \E flux_err \in FluxErrArgs(flux) :
             args = FluxCall("transform_flux_forward", flux, flux_err)
       \/ \E flux \in Vectors(LogFluxValues) : \E flux_err \in FluxErrArgs(flux) :
             args = FluxCall("transform_flux_reverse", flux, flux_err)

\* lines 400-405
TransformFluxForward ==
    /\ pc = "call"
    /\ args.op = "transform_flux_forward"
    /\ ret' = transform_flux_forward(self, args.flux, args.flux_err)
    /\ pc' = "forward_done"
    /\ UNCHANGED <<self, frame, calls, args>>

\* lines 407-412
TransformFluxReverse ==
    /\ pc = "call"
    /\ args.op = "transform_flux_reverse"
    /\ ret' = transform_flux_reverse(self, args.flux, args.flux_err)
    /\ pc' = "reverse_done"
    /\ UNCHANGED <<self, frame, calls, args>>

\* lines 407-412, called on what transform_flux_forward returned
ReverseOfForward ==
    /\ pc = "forward_done"
    /\ ret.raised = ""
    /\ ret' = transform_flux_reverse(self, ret.flux, ret.flux_err)
    /\ pc' = "roundtrip_done"
    /\ UNCHANGED <<self, frame, calls, args>>

NextFlux ==
    \/ TransformFluxForward
    \/ TransformFluxReverse
    \/ ReverseOfForward

SpecFlux == InitFlux /\ [][NextFlux]_vars

----------------------------------------------------------------------------
(* Claims about the flux transform *)

ForwardDone == pc = "forward_done"
ReverseDone == pc = "reverse_done"
RoundTripDone == pc = "roundtrip_done"

\* the result is a vector of the length of the input
SameLengthVector(out, in) ==
    /\ out.type = "ndarray"
    /\ Len(out.data) = Len(in.data)

\* C11: the flux transform never raises and returns a vector of the length
\* of its input; with use_log_flux, forward is log(flux) where flux > 1e-7
\* and NaN elsewhere, reverse is exp(flux') where flux' < 100 and NaN
\* elsewhere; without use_log_flux both return flux and flux_err unchanged.
C11_TransformIsElementwiseAndTotal ==
    (ForwardDone \/ ReverseDone) =>
        /\ ret.raised = ""
        /\ SameLengthVector(ret.flux, args.flux)
        /\ ~self.use_log_flux => ret.flux = args.flux /\ ret.flux_err = args.flux_err
        /\ (self.use_log_flux /\ ForwardDone) =>
              \A k \in DOMAIN args.flux.data :
                 ret.flux.data[k] = IF GreaterThanEpsilon(args.flux.data[k])
                                    THEN NpLog(args.flux.data[k]) ELSE NaNNum
        /\ (self.use_log_flux /\ ReverseDone) =>
              \A k \in DOMAIN args.flux.data :
                 ret.flux.data[k] = IF LessThanGuard(args.flux.data[k])
                                    THEN NpExp(args.flux.data[k]) ELSE NaNNum

\* C12: with use_log_flux and an uncertainty given, forward returns
\* sigma / flux exactly where the linear input flux > 1e-7, reverse returns
\* exp(flux') * sigma' exactly where the log-space input flux' < 100, NaN
\* elsewhere; so the uncertainty is NaN exactly where the returned flux is.
C12_UncertaintyUnderSameGuard ==
    ((ForwardDone \/ ReverseDone) /\ self.use_log_flux /\ args.flux_err # PyNone) =>
        /\ ret.raised = ""
        /\ SameLengthVector(ret.flux, args.flux)
        /\ SameLengthVector(ret.flux_err, args.flux)
        /\ ForwardDone =>
              \A k \in DOMAIN args.flux.data :
                 ret.flux_err.data[k] =
                    IF GreaterThanEpsilon(args.flux.data[k])
                    THEN Divide(args.flux_err.data[k], args.flux.data[k]) ELSE NaNNum
        /\ ReverseDone =>
              \A k \in DOMAIN args.flux.data :
                 ret.flux_err.data[k] =
                    IF LessThanGuard(args.flux.data[k])
                    THEN Multiply(NpExp(args.flux.data[k]), args.flux_err.data[k])
                    ELSE NaNNum
        /\ \A k \in DOMAIN args.flux.data :
              (ret.flux_err.data[k] = NaNNum) <=> (ret.flux.data[k] = NaNNum)

\* C13: with use_log_flux, reverse applied to the flux forward returned does
\* not raise and gives a vector of the input's length, equal to the input at
\* every element with flux > 1e-7 and log(flux) < 100 and NaN at the others.
C13_RoundTripReconstructsFlux ==
    (RoundTripDone /\ self.use_log_flux) =>
        /\ ret.raised = ""
        /\ SameLengthVector(ret.flux, args.flux)
        /\ \A k \in DOMAIN args.flux.data :
              ret.flux.data[k] =
                 IF /\ GreaterThanEpsilon(args.flux.data[k])
                    /\ LessThanGuard(NpLog(args.flux.data[k]))
                 THEN args.flux.data[k] ELSE NaNNum

====
